---- MODULE Spec2Model ----
(***************************************************************************)
(* Model of src/app.py, the Movie Recommendations Dashboard:               *)
(*   get_movies   (the paginated fetch, memoized by st.cache_data),        *)
(*   clean_movies (raw listing records -> movie records),                  *)
(*   filter_movies / show_charts / sort_values / display_movies_with_...   *)
(*   (one render pass of a tab).                                           *)
(*                                                                         *)
(* Data conventions.  A cell of a pandas DataFrame is a tagged record;     *)
(* strings are sequences of one-character strings so that substring and    *)
(* date parsing are computed, not assumed.  Floats (vote_average,          *)
(* popularity) are integers in tenths.  A DataFrame is                     *)
(* [columns, index, rows]: the set of column labels, the index labels      *)
(* (RangeIndex 0..n-1 at construction) and the rows, parallel to index.    *)
(***************************************************************************)
EXTENDS Integers, Sequences, FiniteSets, TLC

\* ------------------------------------------------------------------ bounds
MaxPages == 3
MaxPerPage == 1
MaxCalls == 2
MaxBatch == 2
MaxTermLen == 2

\* ------------------------------------------------------------------- cells
NaN == [kind |-> "NaN"]
None == [kind |-> "None"]
NaT == [kind |-> "NaT"]
Num(n) == [kind |-> "int", n |-> n]
Str(s) == [kind |-> "str", s |-> s]
List(ids) == [kind |-> "list", ids |-> ids]
Date(y, m, d) == [kind |-> "date", y |-> y, m |-> m, d |-> d]
Url(prefix, tail) == [kind |-> "url", prefix |-> prefix, tail |-> tail]

\* pd.isna / pd.notna on a scalar cell
IsNa(x) == x.kind \in {"NaN", "None", "NaT"}

\* Python truthiness, bool(x): None and empty containers are false; a float
\* NaN is a non-zero float and therefore TRUE.
Truthy(x) ==
    CASE x.kind = "None" -> FALSE
      [] x.kind = "list" -> Len(x.ids) > 0
      [] x.kind = "str" -> Len(x.s) > 0
      [] x.kind = "int" -> x.n # 0
      [] OTHER -> TRUE

\* ------------------------------------------------------------- DataFrames
Range(f) == {f[i] : i \in DOMAIN f}

RECURSIVE Flatten(_)
Flatten(ss) == IF ss = <<>> THEN <<>> ELSE Head(ss) \o Flatten(Tail(ss))

\* pd.DataFrame(list_of_dicts): the columns are the union of the dicts' keys,
\* a key a dict lacks becomes NaN, the index is RangeIndex(0, n).
DataFrameOf(dicts) ==
    LET cols == UNION {DOMAIN dicts[i] : i \in DOMAIN dicts}
    IN  [columns |-> cols,
         index |-> [i \in 1..Len(dicts) |-> i - 1],
         rows |-> [i \in 1..Len(dicts) |->
                     [c \in cols |-> IF c \in DOMAIN dicts[i] THEN dicts[i][c] ELSE NaN]]]

\* df.iloc[positions] / df[mask]: the rows at the given positions, in that
\* order, each keeping its index label.
Take(df, pos) ==
    [columns |-> df.columns,
     index |-> [i \in 1..Len(pos) |-> df.index[pos[i]]],
     rows |-> [i \in 1..Len(pos) |-> df.rows[pos[i]]]]

\* A boolean mask is the set of positions it keeps; MaskPositions lists the
\* kept positions of from..n in ascending order.
RECURSIVE MaskPositions(_, _, _)
MaskPositions(n, keep, from) ==
    IF from > n THEN <<>>
    ELSE (IF from \in keep THEN <<from>> ELSE <<>>) \o MaskPositions(n, keep, from + 1)

\* df[mask]
Masked(df, keep) == Take(df, MaskPositions(Len(df.rows), keep, 1))

\* ------------------------------------------------------------ raw records
\* The catalog API's per-item JSON objects used as inputs.  A JSON null is
\* None; a key the object does not carry is simply not in its DOMAIN.
RawUp ==
    [id |-> Num(1), title |-> Str(<<"U", "p">>),
     release_date |-> Str(<<"2", "0", "0", "9", "-", "0", "5", "-", "2", "9">>),
     vote_average |-> Num(90), vote_count |-> Num(10), popularity |-> Num(30),
     genre_ids |-> List(<<28, 18>>), poster_path |-> Str(<<"/", "a">>)]
RawPup ==
    [id |-> Num(2), title |-> Str(<<"P", "u", "p">>),
     release_date |-> Str(<<"2", "0", "0", "9", "-", "0", "5", "-", "2", "9">>),
     vote_average |-> Num(90), vote_count |-> Num(20), popularity |-> Num(20),
     genre_ids |-> List(<<18>>), poster_path |-> None]
RawNoTitle ==
    [id |-> Num(3), title |-> None,
     release_date |-> Str(<<>>),
     vote_average |-> Num(75), vote_count |-> Num(0), popularity |-> Num(20),
     genre_ids |-> List(<<>>), poster_path |-> Str(<<"/", "c">>)]
RawDotted ==
    [id |-> Num(4), title |-> Str(<<"u", ".", "P">>),
     release_date |-> Str(<<"2", "0", "2", "1", "-", "0", "2", "-", "3", "0">>),
     vote_average |-> Num(75), vote_count |-> Num(5), popularity |-> Num(10),
     genre_ids |-> List(<<999, 28>>), poster_path |-> Str(<<"/", "d">>)]
RawNoGenreKey ==
    [id |-> Num(5), title |-> Str(<<"P">>),
     release_date |-> Str(<<"2", "0", "2", "4", "-", "0", "2", "-", "2", "9">>),
     vote_average |-> Num(60), vote_count |-> Num(7), popularity |-> Num(40),
     poster_path |-> None]
RawNoDateKey ==
    [id |-> Num(6), title |-> Str(<<"u">>),
     vote_average |-> Num(60), vote_count |-> Num(8), popularity |-> Num(50),
     genre_ids |-> List(<<28>>), poster_path |-> None]
RawNulls ==
    [id |-> Num(7), title |-> Str(<<"u", "p">>),
     release_date |-> None,
     vote_average |-> Num(80), vote_count |-> Num(9), popularity |-> Num(60),
     genre_ids |-> None, poster_path |-> None]

RawRecords == {RawUp, RawPup, RawNoTitle, RawDotted, RawNoGenreKey, RawNoDateKey, RawNulls}
FetchRecords == {RawUp, RawNoGenreKey}

\* all sequences over S of length at most n
SeqUpTo(S, n) == UNION {[1..k -> S] : k \in 0..n}

VARIABLES
    \* get_movies
    pc,          \* "idle" | "loop" | "returned" | "raised"
    pages,       \* the pages argument
    page,        \* the loop variable: the last page requested, 0 before the first
    all_movies,  \* the accumulator
    requests,    \* the page numbers of the GETs issued by the current call
    served,      \* the "results" arrays the API served to the current call
    result,      \* what the current call returned (NoTable before and on error)
    failed,      \* the page whose request or parse failed in this call, 0 if none
    error,       \* the exception the current call raised, "" if none
    cache,       \* st.cache_data's entry for the call's arguments
    hit,         \* the current call was served from the cache
    calls,       \* calls of get_movies made so far
    \* one render pass of a tab
    tpc,          \* "start" | "cleaned" | "widgets" | "filtered" | "charted" | "sorted" | "done" | "raised"
    raw_df,       \* what get_movies returned
    top_df,       \* clean_movies' result (top_rated_df / trending_df)
    genre_filter, \* the genre selectbox
    search_term,  \* the title text input
    sort_by,      \* the sort selectbox
    df_display,   \* filter_movies' result, the frame show_charts gets
    df_sorted,    \* df_display as rebound by the sort_values lines
    out,          \* what the pass has rendered
    tab_error     \* the exception the pass raised, "" if none

fetchVars == <<pc, pages, page, all_movies, requests, served, result, failed, error, cache, hit, calls>>
tabVars == <<tpc, raw_df, top_df, genre_filter, search_term, sort_by, df_display, df_sorted, out, tab_error>>
vars == <<fetchVars, tabVars>>

NoTable == [kind |-> "None"]
EmptyFrame == DataFrameOf(<<>>)
NoOutput == [warning |-> FALSE, charts |-> <<>>, css |-> FALSE, cards |-> <<>>]

\* ================================================================ get_movies
\* range(1, pages + 1)
PageRangeShort(n) == 1..(n - 1)
PageRange(n) == 1..n

\* The "results" arrays a page of the catalog may carry.
PageBodies == SeqUpTo(FetchRecords, MaxPerPage)

\* What can go wrong on one page: requests.get raises (line 26), the body is
\* not JSON (line 27), the JSON object has no "results" key (line 28).
PageFailures == {"ConnectionError", "JSONDecodeError", "KeyError"}

FetchIdle ==
    /\ pc = "idle" /\ page = 0 /\ all_movies = <<>> /\ requests = <<>>
    /\ served = <<>> /\ result = NoTable /\ failed = 0 /\ error = ""
    /\ cache = NoTable /\ hit = FALSE /\ calls = 0

TabIdle ==
    /\ tpc = "start" /\ raw_df = EmptyFrame /\ top_df = EmptyFrame
    /\ genre_filter = "All" /\ search_term = <<>> /\ sort_by = "Rating (High -> Low)"
    /\ df_display = EmptyFrame /\ df_sorted = EmptyFrame
    /\ out = NoOutput /\ tab_error = ""

InitFetch ==
    /\ pages \in 1..MaxPages
    /\ FetchIdle
    /\ TabIdle

\* A call whose arguments st.cache_data has no entry for: the body runs.
CallUncached ==
    /\ pc \in {"idle", "returned", "raised"}
    /\ calls < MaxCalls
    /\ cache = NoTable
    /\ calls' = calls + 1
    /\ pc' = "loop"
    /\ page' = 0
    /\ all_movies' = <<>>
    /\ requests' = <<>>
    /\ served' = <<>>
    /\ result' = NoTable
    /\ failed' = 0
    /\ error' = ""
    /\ hit' = FALSE
    /\ UNCHANGED <<pages, cache, tabVars>>

\* A call st.cache_data answers from its entry: the body does not run.
CallCached ==
    /\ pc \in {"idle", "returned", "raised"}
    /\ calls < MaxCalls
    /\ cache # NoTable
    /\ calls' = calls + 1
    /\ pc' = "returned"
    /\ page' = 0
    /\ all_movies' = <<>>
    /\ requests' = <<>>
    /\ served' = <<>>
    /\ result' = cache
    /\ failed' = 0
    /\ error' = ""
    /\ hit' = TRUE
    /\ UNCHANGED <<pages, cache, tabVars>>

\* One iteration of the loop, lines 24-28, when the page arrives and parses.
GetPage(body) ==
    /\ pc = "loop"
    /\ page + 1 \in PageRange(pages)
    /\ page' = page + 1
    /\ requests' = Append(requests, page + 1)
    /\ served' = Append(served, body)
    /\ all_movies' = all_movies \o body
    /\ UNCHANGED <<pc, pages, result, failed, error, cache, hit, calls, tabVars>>

\* One iteration of the loop when line 26, 27 or 28 raises: nothing catches
\* it, the call ends.
GetPageFailsSwallowed(kind) ==
    /\ pc = "loop"
    /\ page + 1 \in PageRange(pages)
    /\ page' = page + 1
    /\ requests' = Append(requests, page + 1)
    /\ failed' = page + 1
    /\ error' = kind
    /\ UNCHANGED <<pc, pages, all_movies, served, result, cache, hit, calls, tabVars>>

GetPageFails(kind) ==
    /\ pc = "loop"
    /\ page + 1 \in PageRange(pages)
    /\ page' = page + 1
    /\ requests' = Append(requests, page + 1)
    /\ failed' = page + 1
    /\ error' = kind
    /\ pc' = "raised"
    /\ UNCHANGED <<pages, all_movies, served, result, cache, hit, calls, tabVars>>

\* Line 29, and st.cache_data storing what the body returned.
Return ==
    /\ pc = "loop"
    /\ page + 1 \notin PageRange(pages)
    /\ pc' = "returned"
    /\ result' = DataFrameOf(all_movies)
    /\ cache' = DataFrameOf(all_movies)
    /\ UNCHANGED <<pages, page, all_movies, requests, served, failed, error, hit, calls, tabVars>>

NextFetch ==
    \/ CallUncached
    \/ CallCached
    \/ \E body \in PageBodies : GetPage(body)
    \/ \E kind \in PageFailures : GetPageFails(kind)
    \/ Return

SpecFetch == InitFetch /\ [][NextFetch]_vars

\* C1: for every positive page count N, an execution of the fetcher's body
\* that returns has issued exactly N GET requests, for pages 1, 2, ..., N in
\* that order, and the returned table holds the concatenation of the N pages'
\* "results" arrays in page order, every entry kept.
FetchIssuesEveryPageInOrder ==
    (pc = "returned" /\ ~hit) =>
        /\ requests = [i \in 1..pages |-> i]
        /\ Len(served) = pages
        /\ result = DataFrameOf(Flatten(served))
        /\ Len(result.rows) = Len(Flatten(served))

\* a two-page fetch whose pages carry the same entry: it is in the table twice
FetchDuplicateKeptWitness ==
    /\ pc = "returned" /\ ~hit
    /\ pages >= 2
    /\ Len(served[1]) > 0
    /\ served[1] = served[2]
    /\ Len(result.rows) = 2 * Len(served[1])

\* C8: a request or parse failure on page k ends the call with the error: no
\* table is returned or cached, page k is requested once and no later page is.
FetchFailureAbortsCall ==
    failed # 0 =>
        /\ pc = "raised"
        /\ error \in PageFailures
        /\ result = NoTable
        /\ cache = NoTable
        /\ requests = [i \in 1..failed |-> i]

\* a failure on a page after the first: pages 1..k-1 had been accumulated
FetchFailureWitness ==
    /\ pc = "raised"
    /\ failed >= 2
    /\ failed < pages
    /\ Len(all_movies) > 0

\* ============================================================== clean_movies
\* lines 12-18
genre_map ==
    (28 :> "Action") @@ (12 :> "Adventure") @@ (16 :> "Animation") @@ (35 :> "Comedy") @@
    (80 :> "Crime") @@ (99 :> "Documentary") @@ (18 :> "Drama") @@ (10751 :> "Family") @@
    (14 :> "Fantasy") @@ (36 :> "History") @@ (27 :> "Horror") @@ (10402 :> "Music") @@
    (9648 :> "Mystery") @@ (10749 :> "Romance") @@ (878 :> "Science Fiction") @@
    (10770 :> "TV Movie") @@ (53 :> "Thriller") @@ (10752 :> "War") @@ (37 :> "Western")

\* a genre label, kept as a whole string
Label(name) == [kind |-> "label", name |-> name]

\* the columns line 33 selects
KeptColumns ==
    {"id", "title", "release_date", "vote_average", "vote_count", "popularity",
     "genre_ids", "poster_path"}

Digits == {"0", "1", "2", "3", "4", "5", "6", "7", "8", "9"}
DigitVal(c) ==
    CASE c = "0" -> 0 [] c = "1" -> 1 [] c = "2" -> 2 [] c = "3" -> 3 [] c = "4" -> 4
      [] c = "5" -> 5 [] c = "6" -> 6 [] c = "7" -> 7 [] c = "8" -> 8 [] c = "9" -> 9

IsLeap(y) == (y % 4 = 0 /\ y % 100 # 0) \/ y % 400 = 0
DaysIn(y, m) ==
    CASE m \in {1, 3, 5, 7, 8, 10, 12} -> 31
      [] m \in {4, 6, 9, 11} -> 30
      [] m = 2 -> IF IsLeap(y) THEN 29 ELSE 28
      [] OTHER -> 0

\* an order-preserving integer for a calendar date
DateKey(y, m, d) == y * 10000 + m * 100 + d

\* pd.to_datetime(..., errors='coerce') on one string of the API's date shape,
\* "YYYY-MM-DD": the Timestamp (at midnight, kept as its date) when the string
\* names a calendar day a datetime64[ns] can hold, NaT otherwise.  The empty
\* string is NaT.  (Strings of other shapes are not among the inputs.)
ParseDate(s) ==
    IF /\ Len(s) = 10
       /\ s[5] = "-" /\ s[8] = "-"
       /\ \A i \in {1, 2, 3, 4, 6, 7, 9, 10} : s[i] \in Digits
    THEN LET y == 1000 * DigitVal(s[1]) + 100 * DigitVal(s[2]) + 10 * DigitVal(s[3]) + DigitVal(s[4])
             m == 10 * DigitVal(s[6]) + DigitVal(s[7])
             d == 10 * DigitVal(s[9]) + DigitVal(s[10])
         IN  IF /\ m \in 1..12
                /\ d \in 1..DaysIn(y, m)
                /\ DateKey(y, m, d) \in 16770922..22620411
             THEN Date(y, m, d) ELSE NaT
    ELSE NaT

\* pd.to_datetime(..., errors='coerce') on one cell
ToDatetime(x) ==
    CASE x.kind = "str" -> ParseDate(x.s)
      [] x.kind = "date" -> x
      [] OTHER -> NaT

\* .dt.date and .dt.year on one parsed cell
DtDate(t) == t
DtYear(t) == IF t.kind = "date" THEN Num(t.y) ELSE NaN

\* line 36's lambda: genre_map.get(x[0], 'Unknown') if x else 'Unknown'.
\* x[0] raises TypeError on a truthy value that is not subscriptable, such as
\* the float NaN of a missing key.  (A string is not among the inputs.)
GenreLambdaRaises(x) == Truthy(x) /\ x.kind # "list"
GenreLambdaLast(x) ==
    IF Truthy(x)
    THEN (IF x.ids[Len(x.ids)] \in DOMAIN genre_map THEN genre_map[x.ids[Len(x.ids)]] ELSE "Unknown")
    ELSE "Unknown"
GenreLambda(x) ==
    IF Truthy(x)
    THEN (IF x.ids[1] \in DOMAIN genre_map THEN genre_map[x.ids[1]] ELSE "Unknown")
    ELSE "Unknown"

\* line 37's lambda
PosterLambda(x) ==
    IF ~IsNa(x) THEN Url(<<"https://image.tmdb.org/t/p/w200">>, x) ELSE None

\* line 38's lambda
TmdbLambda(x) == Url(<<"https://www.themoviedb.org/movie/">>, x)

\* lines 32-39.  The result is [status, frame]: status "ok" with the new
\* frame, or the exception that line 33 (a selected column is missing) or
\* line 36 raised.
clean_movies(df) ==
    IF ~(KeptColumns \subseteq df.columns)
    THEN [status |-> "KeyError", frame |-> EmptyFrame]
    ELSE IF \E i \in 1..Len(df.rows) : GenreLambdaRaises(df.rows[i]["genre_ids"])
    THEN [status |-> "TypeError", frame |-> EmptyFrame]
    ELSE LET cols == KeptColumns \cup {"year", "genre", "poster_url", "tmdb_url"}
             date(r) == DtDate(ToDatetime(r["release_date"]))
             cell(r, c) ==
                 CASE c = "release_date" -> date(r)
                   [] c = "year" -> DtYear(ToDatetime(date(r)))
                   [] c = "genre" -> Label(GenreLambda(r["genre_ids"]))
                   [] c = "poster_url" -> PosterLambda(r["poster_path"])
                   [] c = "tmdb_url" -> TmdbLambda(r["id"])
                   [] OTHER -> r[c]
         IN  [status |-> "ok",
              frame |-> [columns |-> cols,
                         index |-> df.index,
                         rows |-> [i \in 1..Len(df.rows) |->
                                     [c \in cols |-> cell(df.rows[i], c)]]]]

\* ============================================================ filter_movies
Lower(c) == CASE c = "U" -> "u" [] c = "P" -> "p" [] OTHER -> c

\* One pattern character of a regular expression against one character of
\* the text, under re.IGNORECASE: "." is any character but a newline, a
\* letter is itself in either case.  (The search terms drawn hold letters
\* and "." only, so a pattern character consumes exactly one character.)
ReChar(p, c) == IF p = "." THEN c # "\n" ELSE Lower(p) = Lower(c)

\* re.search(pat, text, re.IGNORECASE) is not None
ReSearch(pat, text) ==
    \E k \in 0..(Len(text) - Len(pat)) :
        \A j \in 1..Len(pat) : ReChar(pat[j], text[k + j])

\* Series.str.contains(pat, case=False, na=False) on one cell: regex=True is
\* the default, a missing value gives na.
StrContains(x, pat) == IF x.kind = "str" THEN ReSearch(pat, x.s) ELSE FALSE

\* lines 83-88, with the rows after the first dropped from the result
filter_movies_tail(df, g, term) ==
    LET d1 == IF g # "All"
              THEN Masked(df, {i \in 1..Len(df.rows) : df.rows[i]["genre"] = Label(g)})
              ELSE df
        d2 == IF Len(term) > 0
              THEN Masked(d1, {i \in 1..Len(d1.rows) : StrContains(d1.rows[i]["title"], term)})
              ELSE d1
    IN  Take(d2, [i \in 1..(Len(d2.rows) - 1) |-> i + 1])

\* lines 83-88
filter_movies(df, g, term) ==
    LET d1 == IF g # "All"
              THEN Masked(df, {i \in 1..Len(df.rows) : df.rows[i]["genre"] = Label(g)})
              ELSE df
        d2 == IF Len(term) > 0
              THEN Masked(d1, {i \in 1..Len(d1.rows) : StrContains(d1.rows[i]["title"], term)})
              ELSE d1
    IN  d2

\* ============================================================== show_charts
\* df.empty
IsEmpty(df) == Len(df.rows) = 0 \/ df.columns = {}

\* Series.value_counts(): how often each value that is not missing occurs
ValueCounts(df, col) ==
    LET vals == {df.rows[i][col] : i \in 1..Len(df.rows)}
    IN  [v \in {x \in vals : ~IsNa(x)} |->
            Cardinality({i \in 1..Len(df.rows) : df.rows[i][col] = v})]

\* lines 91-113 without the guard of lines 92-94
show_charts_unguarded(df, o) ==
    [o EXCEPT !.charts =
        <<[title |-> "Distribution of Movie Ratings",
           data |-> [i \in 1..Len(df.rows) |-> df.rows[i]["vote_average"]]],
          [title |-> "Number of Movies by Release Year", data |-> <<>>],
          [title |-> "Top Genres", data |-> <<>>]>>]

\* lines 91-113: what the pass has rendered after show_charts(df)
show_charts(df, o) ==
    IF IsEmpty(df)
    THEN [o EXCEPT !.warning = TRUE]
    ELSE [o EXCEPT !.charts =
            <<[title |-> "Distribution of Movie Ratings",
               data |-> [i \in 1..Len(df.rows) |-> df.rows[i]["vote_average"]]],
              [title |-> "Number of Movies by Release Year",
               data |-> ValueCounts(df, "year")],
              [title |-> "Top Genres",
               data |-> ValueCounts(df, "genre")]>>]

\* ============================================================== sort_values
Reverse(q) == [i \in 1..Len(q) |-> q[Len(q) + 1 - i]]

\* the orderings of 1..n
Perms(n) == {p \in [1..n -> 1..n] : \A i, j \in 1..n : i # j => p[i] # p[j]}

\* an order-preserving integer for a sort key that is not missing
CellKey(x) == IF x.kind = "date" THEN DateKey(x.y, x.m, x.d) ELSE x.n

\* ndarray.argsort(kind='quicksort') on integer keys: an ordering that puts
\* the keys in ascending order.  quicksort is not a stable sort, so any
\* ordering of equal keys may come out.
ArgsortQuicksort(keys) ==
    {p \in Perms(Len(keys)) :
        \A i, j \in 1..Len(keys) : i < j => keys[p[i]] <= keys[p[j]]}

\* pandas' nargsort(items, kind='quicksort', ascending=True, na_position='last')
NargsortAscending(items) ==
    LET n == Len(items)
        non_nan_idx == MaskPositions(n, {i \in 1..n : ~IsNa(items[i])}, 1)
        nan_idx == MaskPositions(n, {i \in 1..n : IsNa(items[i])}, 1)
        non_nans == [i \in 1..Len(non_nan_idx) |-> CellKey(items[non_nan_idx[i]])]
    IN  {[i \in 1..Len(non_nan_idx) |-> non_nan_idx[p[i]]] \o nan_idx :
            p \in ArgsortQuicksort(non_nans)}

\* pandas' nargsort(items, kind='quicksort', ascending=False, na_position='last'),
\* which DataFrame.sort_values(by=col, ascending=False) calls: the values that
\* are not missing are reversed, argsorted ascending and reversed again; the
\* missing ones follow in their original order.
NargsortDescending(items) ==
    LET n == Len(items)
        non_nan_idx == Reverse(MaskPositions(n, {i \in 1..n : ~IsNa(items[i])}, 1))
        nan_idx == MaskPositions(n, {i \in 1..n : IsNa(items[i])}, 1)
        non_nans == [i \in 1..Len(non_nan_idx) |-> CellKey(items[non_nan_idx[i]])]
    IN  {Reverse([i \in 1..Len(non_nan_idx) |-> non_nan_idx[p[i]]]) \o nan_idx :
            p \in ArgsortQuicksort(non_nans)}

SortOptions ==
    {"Rating (High -> Low)", "Popularity (High -> Low)", "Release Date (Newest First)"}

\* lines 141-146: the column each option sorts by
SortColumn(option) ==
    CASE option = "Rating (High -> Low)" -> "vote_average"
      [] option = "Popularity (High -> Low)" -> "popularity"
      [] option = "Release Date (Newest First)" -> "release_date"

Column(df, col) == [i \in 1..Len(df.rows) |-> df.rows[i][col]]

\* ============================================== display_movies_with_posters
items_per_row == 6

\* lines 55-61: the (i, j) of the two loops that reach line 62
CardSlots(n) ==
    LET rows == (n + items_per_row - 1) \div items_per_row
    IN  {ij \in (0..(rows - 1)) \X (0..(items_per_row - 1)) :
            ij[1] * items_per_row + ij[2] < n}

\* lines 62-79: the card of df.iloc[idx]
Card(df, pos) ==
    LET movie == df.rows[pos]
    IN  [href |-> movie["tmdb_url"],
         poster |-> IF Truthy(movie["poster_url"]) THEN movie["poster_url"] ELSE Str(<<>>),
         title |-> movie["title"],
         date |-> movie["release_date"],
         rating |-> movie["vote_average"],
         genre |-> movie["genre"]]

display_movies_with_posters(df, o) ==
    [o EXCEPT !.css = TRUE,
              !.cards = [k \in 1..Cardinality(CardSlots(Len(df.rows))) |-> Card(df, k)]]

\* ====================================================== one pass of a tab
\* what the user may have typed into "Search Title"
TermChars == {"u", "P", "."}
Terms == SeqUpTo(TermChars, MaxTermLen)

\* what get_movies may have returned to the tab
RawBatches == SeqUpTo(RawRecords, MaxBatch)

\* line 129: ["All"] + sorted(top_rated_df['genre'].unique())
GenreOptions(df) == {"All"} \cup {df.rows[i]["genre"].name : i \in 1..Len(df.rows)}

InitTab ==
    /\ pages = 5
    /\ FetchIdle
    /\ tpc = "start"
    /\ raw_df \in {DataFrameOf(b) : b \in RawBatches}
    /\ top_df = EmptyFrame
    /\ genre_filter = "All" /\ search_term = <<>> /\ sort_by = "Rating (High -> Low)"
    /\ df_display = EmptyFrame /\ df_sorted = EmptyFrame
    /\ out = NoOutput /\ tab_error = ""

\* line 125 (156): clean_movies returns
Clean ==
    /\ tpc = "start"
    /\ clean_movies(raw_df).status = "ok"
    /\ top_df' = clean_movies(raw_df).frame
    /\ tpc' = "cleaned"
    /\ UNCHANGED <<raw_df, genre_filter, search_term, sort_by, df_display, df_sorted, out,
                   tab_error, fetchVars>>

\* line 125 (156): clean_movies raises; nothing catches it, the pass ends
CleanRaises ==
    /\ tpc = "start"
    /\ clean_movies(raw_df).status # "ok"
    /\ tab_error' = clean_movies(raw_df).status
    /\ tpc' = "raised"
    /\ UNCHANGED <<raw_df, top_df, genre_filter, search_term, sort_by, df_display, df_sorted,
                   out, fetchVars>>

\* lines 127-133: the three widgets' values
ReadWidgets(g, term, option) ==
    /\ tpc = "cleaned"
    /\ genre_filter' = g
    /\ search_term' = term
    /\ sort_by' = option
    /\ tpc' = "widgets"
    /\ UNCHANGED <<raw_df, top_df, df_display, df_sorted, out, tab_error, fetchVars>>

\* line 135
Filter ==
    /\ tpc = "widgets"
    /\ df_display' = filter_movies(top_df, genre_filter, search_term)
    /\ tpc' = "filtered"
    /\ UNCHANGED <<raw_df, top_df, genre_filter, search_term, sort_by, df_sorted, out,
                   tab_error, fetchVars>>

\* lines 137-138
ShowCharts ==
    /\ tpc = "filtered"
    /\ out' = show_charts(df_display, out)
    /\ tpc' = "charted"
    /\ UNCHANGED <<raw_df, top_df, genre_filter, search_term, sort_by, df_display, df_sorted,
                   tab_error, fetchVars>>

\* lines 141-146; the sorted frame is kept in df_sorted so that the frame
\* show_charts got stays readable
Sort ==
    /\ tpc = "charted"
    /\ \E indexer \in NargsortDescending(Column(df_display, SortColumn(sort_by))) :
          df_sorted' = Take(df_display, indexer)
    /\ tpc' = "sorted"
    /\ UNCHANGED <<raw_df, top_df, genre_filter, search_term, sort_by, df_display, out,
                   tab_error, fetchVars>>

\* line 148
Display ==
    /\ tpc = "sorted"
    /\ out' = display_movies_with_posters(df_sorted, out)
    /\ tpc' = "done"
    /\ UNCHANGED <<raw_df, top_df, genre_filter, search_term, sort_by, df_display, df_sorted,
                   tab_error, fetchVars>>

NextTab ==
    \/ Clean
    \/ CleanRaises
    \/ \E g \in GenreOptions(top_df), term \in Terms, option \in SortOptions :
          ReadWidgets(g, term, option)
    \/ Filter
    \/ ShowCharts
    \/ Sort
    \/ Display

SpecTab == InitTab /\ [][NextTab]_vars

\* ------------------------------------------------------------ clean_movies
Cleaned == tpc \notin {"start", "raised"}
CleanTried == tpc # "start"
RowCount == Len(raw_df.rows)

\* the raw cell of row i in column col, NaN when no record carried the key
RawCell(i, col) == IF col \in raw_df.columns THEN raw_df.rows[i][col] ELSE NaN

\* C2: a record whose genre_ids has at least one entry gets the genre table's
\* label for the first id, "Unknown" when the table has no such key, whatever
\* the later ids are.
GenreIsFirstIdLabel ==
    Cleaned =>
        \A i \in 1..RowCount :
            LET x == RawCell(i, "genre_ids")
            IN  (x.kind = "list" /\ Len(x.ids) >= 1) =>
                    top_df.rows[i]["genre"] =
                        Label(IF x.ids[1] \in DOMAIN genre_map
                              THEN genre_map[x.ids[1]] ELSE "Unknown")

\* genre_ids = [28, 18] has become "Action" and [999, 28] "Unknown"
GenreFirstIdWitness ==
    /\ tpc = "cleaned"
    /\ \E i \in 1..RowCount :
          /\ RawCell(i, "genre_ids") = List(<<28, 18>>)
          /\ top_df.rows[i]["genre"] = Label("Action")
    /\ \E i \in 1..RowCount :
          /\ RawCell(i, "genre_ids") = List(<<999, 28>>)
          /\ top_df.rows[i]["genre"] = Label("Unknown")

GenreAbsent(x) == x.kind \in {"NaN", "None"} \/ (x.kind = "list" /\ Len(x.ids) = 0)
\* C3: a record whose genre_ids is empty or absent gets the genre "Unknown",
\* and clean_movies raises no error.
EmptyOrAbsentGenreIsUnknown ==
    CleanTried =>
        \A i \in 1..RowCount :
            GenreAbsent(RawCell(i, "genre_ids")) =>
                /\ tpc # "raised"
                /\ top_df.rows[i]["genre"] = Label("Unknown")

MalformedDates ==
    {<<>>, <<"2", "0", "2", "1", "-", "0", "2", "-", "3", "0">>}
DateAbsent(x) == x.kind \in {"NaN", "None"} \/ (x.kind = "str" /\ x.s \in MalformedDates)
\* C4: a record whose release_date is malformed or absent is kept, with
\* release_date and year both absent, and clean_movies raises no error.
BadDateRecordKept ==
    CleanTried =>
        \A i \in 1..RowCount :
            DateAbsent(RawCell(i, "release_date")) =>
                /\ tpc # "raised"
                /\ Len(top_df.rows) = RowCount
                /\ top_df.rows[i]["id"] = raw_df.rows[i]["id"]
                /\ top_df.rows[i]["release_date"] = NaT
                /\ top_df.rows[i]["year"] = NaN

WellFormed ==
    \A i \in 1..RowCount :
        /\ KeptColumns \subseteq raw_df.columns
        /\ \A c \in KeptColumns : raw_df.rows[i][c].kind # "NaN"
\* C9: over well-formed records clean_movies raises no error and returns one
\* record per input record, in input order, each with the detail URL of its
\* id.
CleanIsTotalOneToOne ==
    (CleanTried /\ WellFormed) =>
        /\ tpc # "raised"
        /\ Len(top_df.rows) = RowCount
        /\ top_df.index = raw_df.index
        /\ \A i \in 1..RowCount :
              /\ top_df.rows[i]["id"] = raw_df.rows[i]["id"]
              /\ top_df.rows[i]["tmdb_url"] =
                    Url(<<"https://www.themoviedb.org/movie/">>, raw_df.rows[i]["id"])

\* ----------------------------------------------------------- filter_movies
Filtered == tpc \in {"filtered", "charted", "sorted", "done"}

\* text contains term as a literal substring, compared case-insensitively
LiteralContains(text, term) ==
    \E k \in 0..(Len(text) - Len(term)) :
        \A j \in 1..Len(term) : Lower(term[j]) = Lower(text[k + j])

\* C6: for a non-empty search_term, filter_movies keeps exactly the records
\* (of the selected genre) whose title contains search_term as a literal
\* substring, compared case-insensitively; a record without a title is never
\* kept.
SearchKeepsLiteralSubstring ==
    (Filtered /\ Len(search_term) > 0) =>
        Range(df_display.index) =
            {top_df.index[i] : i \in
                {k \in 1..Len(top_df.rows) :
                    /\ genre_filter # "All" => top_df.rows[k]["genre"] = Label(genre_filter)
                    /\ top_df.rows[k]["title"].kind = "str"
                    /\ LiteralContains(top_df.rows[k]["title"].s, search_term)}}

\* C10: filter_movies applied to its own result, with the same genre_filter
\* and search_term, gives that result again.
FilterIsIdempotent ==
    Filtered => filter_movies(df_display, genre_filter, search_term) = df_display

\* both filters were set, and the filter dropped a record and kept one
FilterIdempotentWitness ==
    /\ tpc = "filtered"
    /\ genre_filter # "All"
    /\ Len(search_term) > 0
    /\ Len(df_display.rows) >= 1
    /\ Len(df_display.rows) < Len(top_df.rows)

\* ------------------------------------------------------------- sort_values
Sorted == tpc \in {"sorted", "done"}
SortKeys == Column(df_sorted, SortColumn(sort_by))

\* the output is a rearrangement of the input: the same index labels, each
\* once, each with its row
SortPermutes ==
    /\ Len(df_sorted.rows) = Len(df_display.rows)
    /\ \A i \in 1..Len(df_display.rows) :
          \E j \in 1..Len(df_sorted.rows) :
              /\ df_sorted.index[j] = df_display.index[i]
              /\ df_sorted.rows[j] = df_display.rows[i]

\* C5 as stated: a stable descending sort.  The output is a permutation of
\* the input ordered by non-increasing key, and records with equal key keep
\* their relative input order.
SortIsStableDescending ==
    Sorted =>
        /\ SortPermutes
        /\ \A i, j \in 1..Len(SortKeys) :
              (i < j /\ ~IsNa(SortKeys[i]) /\ ~IsNa(SortKeys[j])) =>
                  /\ CellKey(SortKeys[i]) >= CellKey(SortKeys[j])
                  /\ CellKey(SortKeys[i]) = CellKey(SortKeys[j]) =>
                        df_sorted.index[i] < df_sorted.index[j]

\* C5 as amended: a descending sort that need not be stable.  The output is
\* a permutation of the input, ordered by non-increasing key, the records
\* without a key last.
SortIsDescending ==
    Sorted =>
        /\ SortPermutes
        /\ \A i, j \in 1..Len(SortKeys) :
              i < j =>
                  /\ IsNa(SortKeys[i]) => IsNa(SortKeys[j])
                  /\ (~IsNa(SortKeys[i]) /\ ~IsNa(SortKeys[j])) =>
                        CellKey(SortKeys[i]) >= CellKey(SortKeys[j])

\* the sort moved a record with a larger key ahead of one that preceded it
SortDescendingWitness ==
    /\ tpc = "done"
    /\ Len(df_sorted.rows) >= 2
    /\ df_sorted.index[1] > df_sorted.index[2]
    /\ ~IsNa(SortKeys[1]) /\ ~IsNa(SortKeys[2])
    /\ CellKey(SortKeys[1]) > CellKey(SortKeys[2])

\* ------------------------------------------------------------ empty result
\* C7: when the filtered set is empty the pass shows the warning, renders no
\* chart and no card, and runs to its end without raising, whatever the sort
\* option.
EmptyResultTakesNoResultsPath ==
    (Filtered /\ IsEmpty(df_display)) =>
        /\ tab_error = ""
        /\ out.charts = <<>>
        /\ out.cards = <<>>
        /\ tpc # "filtered" => out.warning
        /\ tpc = "filtered" => ENABLED ShowCharts
        /\ tpc = "charted" => ENABLED Sort
        /\ tpc = "sorted" => ENABLED Display

EmptyResultWitness ==
    /\ tpc = "done"
    /\ IsEmpty(df_display)
    /\ Len(top_df.rows) >= 1
    /\ sort_by = "Release Date (Newest First)"
    /\ out.warning /\ out.css
    /\ out.charts = <<>> /\ out.cards = <<>>

====
